---- MODULE Spec2Model ----
(***************************************************************************)
(* Model of src/utils/build_section_tree_md_only.py: the heading extractor *)
(* parse_markdown_headings and the tree builder build_tree_markdown_levels.*)
(*                                                                         *)
(* A str is a sequence of one-character strings.  Optional[int] is a       *)
(* sequence of length at most one: <<>> is None, <<n>> is the integer n.   *)
(* HeadingNode objects live in `heap`; an object is named by its index in  *)
(* the heap (its identity), and a list of nodes is a sequence of indices.  *)
(***************************************************************************)
EXTENDS Integers, Sequences, FiniteSets, TLC

VARIABLES
    srcLines,       \* the lines the input text was assembled from
    md_text,        \* the argument of parse_markdown_headings
    pc,             \* position of the pipeline
    lines,          \* md_text.splitlines(), the sequence the for loop walks
    li,             \* index of the line the for loop scans next
    page,           \* local `page` of parse_markdown_headings
    in_code_block,  \* local `in_code_block` of parse_markdown_headings
    headings,       \* list of HeadingNode references (parse result, build input)
    emitted,        \* history: per scanned line, the node it produced, 0 if none
    heap,           \* the HeadingNode objects allocated so far
    root,           \* local `root` of build_tree_markdown_levels
    stack,          \* local `stack` of build_tree_markdown_levels
    hi,             \* index of the heading the build for loop takes next
    pops,           \* number of stack.pop() calls of the running build
    trees           \* the dictionaries returned by main's pipeline runs, in order

vars == <<srcLines, md_text, pc, lines, li, page, in_code_block, headings,
          emitted, heap, root, stack, hi, pops, trees>>

----------------------------------------------------------------------------
(* Bounds of the model *)

MaxLines == 3
MaxRuns == 2
MaxRunLines == 3
MaxPageLines == 4
MaxHeadings == 5
MaxBuilds == 2

----------------------------------------------------------------------------
(* Characters and strings *)

None == <<>>
Some(n) == <<n>>

\* Python's str.isspace / the regex class \s, over the characters used here.
IsSpace(c) == c \in {" ", "\t", "\n"}

\* The regex class \d.
IsDigit(c) == c \in {"0", "1", "2", "3", "4", "5", "6", "7", "8", "9"}

\* Index of the first character at or after i that is not whitespace (\s* greedy).
RECURSIVE SkipSpace(_, _)
SkipSpace(s, i) ==
    IF i <= Len(s) /\ IsSpace(s[i]) THEN SkipSpace(s, i + 1) ELSE i

\* Number of consecutive occurrences of character c in s starting at i.
RECURSIVE RunOf(_, _, _)
RunOf(s, i, c) ==
    IF i <= Len(s) /\ s[i] = c THEN 1 + RunOf(s, i + 1, c) ELSE 0

\* Number of consecutive digits of s starting at i (\d+ greedy).
RECURSIVE RunOfDigits(_, _)
RunOfDigits(s, i) ==
    IF i <= Len(s) /\ IsDigit(s[i]) THEN 1 + RunOfDigits(s, i + 1) ELSE 0

\* s has the literal lit at position i.
HasAt(s, i, lit) ==
    /\ i + Len(lit) - 1 <= Len(s)
    /\ \A k \in 1..Len(lit) : s[i + k - 1] = lit[k]

\* Index of the last character of s that is not whitespace, 0 if there is none.
RECURSIVE LastNonSpace(_, _)
LastNonSpace(s, j) ==
    IF j >= 1 /\ IsSpace(s[j]) THEN LastNonSpace(s, j - 1) ELSE j

\* str.strip()
Strip(s) == SubSeq(s, SkipSpace(s, 1), LastNonSpace(s, Len(s)))

\* str.splitlines() for the line boundary "\n": the text is cut after every
\* "\n"; the characters after the last "\n", if any, are the last line.
RECURSIVE SplitFrom(_, _, _)
SplitFrom(s, i, cur) ==
    IF i > Len(s) THEN (IF cur = <<>> THEN <<>> ELSE <<cur>>)
    ELSE IF s[i] = "\n" THEN <<cur>> \o SplitFrom(s, i + 1, <<>>)
    ELSE SplitFrom(s, i + 1, Append(cur, s[i]))

SplitLines(s) == SplitFrom(s, 1, <<>>)

----------------------------------------------------------------------------
(* The three regular expressions of parse_markdown_headings *)

\* The backtick character (a string of the model cannot hold it literally).
Backtick == "BACKTICK"
Tilde == "~"

\* Mutant: only backtick fences are recognised.
CodeBlockMatch_Backticks(line) == RunOf(line, SkipSpace(line, 1), Backtick) >= 3

\* Mutant: a fence is recognised only at the very start of the line.
CodeBlockMatch_NoIndent(line) ==
    RunOf(line, 1, Backtick) >= 3 \/ RunOf(line, 1, Tilde) >= 3

\* code_block_rx = ^\s*(BACKTICK{3,}|~{3,})  used with .match(line)
CodeBlockMatch(line) ==
    LET i == SkipSpace(line, 1)
    IN  RunOf(line, i, Backtick) >= 3 \/ RunOf(line, i, Tilde) >= 3

PagePrefix == <<"<", "!", "-", "-", "P", "A", "G", "E", ":">>
PageSuffix == <<"-", "-", ">">>

\* page_rx = ^\s*<!--PAGE:\s*(\d+)\s*-->\s*$  used with .match(stripped).
\* The classes of adjacent pieces are disjoint, so the greedy match is the
\* only one.  The result is [ok, digits]: digits is group(1).
PageMatch(s) ==
    LET i1 == SkipSpace(s, 1)
        i2 == i1 + Len(PagePrefix)
        i3 == SkipSpace(s, i2)
        nd == RunOfDigits(s, i3)
        i4 == i3 + nd
        i5 == SkipSpace(s, i4)
        i6 == i5 + Len(PageSuffix)
        ok == /\ HasAt(s, i1, PagePrefix)
              /\ nd >= 1
              /\ HasAt(s, i5, PageSuffix)
              /\ SkipSpace(s, i6) = Len(s) + 1
    IN  [ok |-> ok, digits |-> IF ok THEN SubSeq(s, i3, i4 - 1) ELSE <<>>]

DigitVal(c) ==
    CASE c = "0" -> 0 [] c = "1" -> 1 [] c = "2" -> 2 [] c = "3" -> 3
      [] c = "4" -> 4 [] c = "5" -> 5 [] c = "6" -> 6 [] c = "7" -> 7
      [] c = "8" -> 8 [] c = "9" -> 9

\* int(text) succeeds on a non-empty string of digits and raises ValueError
\* otherwise.  (The interpreter also raises ValueError past its digit limit,
\* thousands of digits, far beyond the lines drawn here.)
IntParses(ds) == Len(ds) >= 1 /\ \A k \in 1..Len(ds) : IsDigit(ds[k])

RECURSIVE IntOf(_)
IntOf(ds) ==
    IF ds = <<>> THEN 0
    ELSE 10 * IntOf(SubSeq(ds, 1, Len(ds) - 1)) + DigitVal(ds[Len(ds)])

\* header_rx = ^(#{1,6})\s+(.+?)\s*$  used with .match(line).
\* A way to match is a triple <<k, j, m>>: k marker characters, then j
\* whitespace characters, then m characters of group(2), then whitespace up
\* to the end of the line.
HeaderMaxMarkers == 6

\* Mutant: the whitespace after the markers is optional.
HeaderSplits_OptionalSpace(line) ==
    { t \in (1..HeaderMaxMarkers) \X (0..Len(line)) \X (1..Len(line)) :
        /\ t[1] + t[2] + t[3] <= Len(line)
        /\ \A x \in 1..t[1] : line[x] = "#"
        /\ \A x \in (t[1] + 1)..(t[1] + t[2]) : IsSpace(line[x])
        /\ \A x \in (t[1] + t[2] + 1)..(t[1] + t[2] + t[3]) : line[x] # "\n"
        /\ \A x \in (t[1] + t[2] + t[3] + 1)..Len(line) : IsSpace(line[x]) }

HeaderSplits(line) ==
    { t \in (1..HeaderMaxMarkers) \X (1..Len(line)) \X (1..Len(line)) :
        /\ t[1] + t[2] + t[3] <= Len(line)
        /\ \A x \in 1..t[1] : line[x] = "#"
        /\ \A x \in (t[1] + 1)..(t[1] + t[2]) : IsSpace(line[x])
        /\ \A x \in (t[1] + t[2] + 1)..(t[1] + t[2] + t[3]) : line[x] # "\n"
        /\ \A x \in (t[1] + t[2] + t[3] + 1)..Len(line) : IsSpace(line[x]) }

\* The backtracking matcher's choice: #{1,6} and \s+ are greedy (longest
\* first), .+? is lazy (shortest first).
HeaderPrefers(a, b) ==
    \/ a[1] > b[1]
    \/ a[1] = b[1] /\ a[2] > b[2]
    \/ a[1] = b[1] /\ a[2] = b[2] /\ a[3] <= b[3]

\* The result is [ok, g1, g2]: g1 is group(1), g2 is group(2).
HeaderRx(line) ==
    LET S == HeaderSplits(line)
    IN  IF S = {} THEN [ok |-> FALSE, g1 |-> <<>>, g2 |-> <<>>]
        ELSE LET t == CHOOSE a \in S : \A b \in S : HeaderPrefers(a, b)
             IN  [ok |-> TRUE,
                  g1 |-> SubSeq(line, 1, t[1]),
                  g2 |-> SubSeq(line, t[1] + t[2] + 1, t[1] + t[2] + t[3])]

----------------------------------------------------------------------------
(* HeadingNode *)

\* HeadingNode(title=..., level=..., page=...): children is a fresh empty list.
NewNode(title, level, pg) ==
    [title |-> title, level |-> level, page |-> pg, children |-> <<>>]

\* HeadingNode.to_dict of the object at address a.
RECURSIVE ToDict(_, _)
ToDict(hp, a) ==
    [title |-> hp[a].title,
     level |-> hp[a].level,
     page |-> hp[a].page,
     children |-> [k \in 1..Len(hp[a].children) |-> ToDict(hp, hp[a].children[k])]]

RootTitle == <<"R", "O", "O", "T">>

----------------------------------------------------------------------------
(* parse_markdown_headings *)

\* Mutant: the first page marker wins.
PageRule_FirstWins(stripped, cur) ==
    LET m == PageMatch(stripped)
    IN  [hit |-> m.ok,
         page |-> IF m.ok /\ IntParses(m.digits) /\ cur = None
                  THEN Some(IntOf(m.digits)) ELSE cur]

\* Mutant: any line that starts like a page marker is taken by the rule, and
\* a marker without an integer clears the page.
PageRule_Reset(stripped, cur) ==
    LET m == PageMatch(stripped)
    IN  [hit |-> HasAt(stripped, 1, PagePrefix),
         page |-> IF m.ok /\ IntParses(m.digits) THEN Some(IntOf(m.digits)) ELSE None]

\* The page-marker rule applied to the stripped line: whether the line is
\* consumed by the rule, and the value of `page` after it.
PageRule(stripped, cur) ==
    LET m == PageMatch(stripped)
    IN  [hit |-> m.ok,
         page |-> IF m.ok /\ IntParses(m.digits) THEN Some(IntOf(m.digits)) ELSE cur]

\* Mutant: the whitespace-stripped line is matched against header_rx.
HeaderRule_Stripped(line, stripped) == HeaderRx(stripped)

\* mh = header_rx.match(line)
HeaderRule(line, stripped) == HeaderRx(line)

\* Mutant: the list of headings outlives the call.
ParseStart_KeepHeadings ==
    /\ pc = "main"
    /\ page' = None
    /\ in_code_block' = FALSE
    /\ lines' = SplitLines(md_text)
    /\ li' = 1
    /\ emitted' = <<>>
    /\ pc' = "scan"
    /\ UNCHANGED <<srcLines, md_text, headings, heap, root, stack, hi, pops, trees>>

\* The call parse_markdown_headings(md_text) up to the for loop.
ParseStart ==
    /\ pc = "main"
    /\ page' = None
    /\ headings' = <<>>
    /\ emitted' = <<>>
    /\ in_code_block' = FALSE
    /\ lines' = SplitLines(md_text)
    /\ li' = 1
    /\ pc' = "scan"
    /\ UNCHANGED <<srcLines, md_text, heap, root, stack, hi, pops, trees>>

\* Mutant: the page-marker rule is applied before the in-fence check.
ScanLine_PageBeforeFence ==
    /\ pc = "scan"
    /\ li <= Len(lines)
    /\ LET line == lines[li]
           stripped == Strip(line)
           mpage == PageRule(stripped, page)
           mh == HeaderRule(line, stripped)
       IN  IF CodeBlockMatch(line)
           THEN /\ in_code_block' = ~in_code_block
                /\ UNCHANGED <<page, headings, heap>>
           ELSE IF mpage.hit
           THEN /\ page' = mpage.page
                /\ UNCHANGED <<in_code_block, headings, heap>>
           ELSE IF in_code_block
           THEN UNCHANGED <<in_code_block, page, headings, heap>>
           ELSE IF stripped = <<>>
           THEN UNCHANGED <<in_code_block, page, headings, heap>>
           ELSE IF mh.ok
           THEN /\ heap' = Append(heap, NewNode(Strip(mh.g2), Len(mh.g1), page))
                /\ headings' = Append(headings, Len(heap) + 1)
                /\ UNCHANGED <<in_code_block, page>>
           ELSE UNCHANGED <<in_code_block, page, headings, heap>>
    /\ li' = li + 1
    /\ emitted' = Append(emitted, IF Len(headings') > Len(headings)
                                  THEN headings'[Len(headings')] ELSE 0)
    /\ UNCHANGED <<srcLines, md_text, pc, lines, root, stack, hi, pops, trees>>

\* One iteration of the for loop over the lines.
ScanLine ==
    /\ pc = "scan"
    /\ li <= Len(lines)
    /\ LET line == lines[li]
           stripped == Strip(line)
           mpage == PageRule(stripped, page)
           mh == HeaderRule(line, stripped)
       IN  IF CodeBlockMatch(line)
           THEN /\ in_code_block' = ~in_code_block
                /\ UNCHANGED <<page, headings, heap>>
           ELSE IF in_code_block
           THEN UNCHANGED <<in_code_block, page, headings, heap>>
           ELSE IF stripped = <<>>
           THEN UNCHANGED <<in_code_block, page, headings, heap>>
           ELSE IF mpage.hit
           THEN /\ page' = mpage.page
                /\ UNCHANGED <<in_code_block, headings, heap>>
           ELSE IF mh.ok
           THEN /\ heap' = Append(heap, NewNode(Strip(mh.g2), Len(mh.g1), page))
                /\ headings' = Append(headings, Len(heap) + 1)
                /\ UNCHANGED <<in_code_block, page>>
           ELSE UNCHANGED <<in_code_block, page, headings, heap>>
    /\ li' = li + 1
    /\ emitted' = Append(emitted, IF Len(headings') > Len(headings)
                                  THEN headings'[Len(headings')] ELSE 0)
    /\ UNCHANGED <<srcLines, md_text, pc, lines, root, stack, hi, pops, trees>>

\* The for loop is exhausted: return headings.
ParseReturn ==
    /\ pc = "scan"
    /\ li > Len(lines)
    /\ pc' = "parsed"
    /\ UNCHANGED <<srcLines, md_text, lines, li, page, in_code_block, headings,
                   emitted, heap, root, stack, hi, pops, trees>>

----------------------------------------------------------------------------
(* build_tree_markdown_levels *)

\* Mutant: the while loop pops only strictly deeper headings.
PopCond_Strict(topLevel, hLevel) == topLevel > hLevel

\* The condition of the while loop, on the levels of stack[-1] and h.
PopCond(topLevel, hLevel) == topLevel >= hLevel

\* Mutant: the heading is inserted in front of its siblings.
AttachChild_Front(children, h) == <<h>> \o children

\* parent.children.append(h)
AttachChild(children, h) == Append(children, h)

\* Mutant: the heading is inserted at the bottom of the stack.
Push_Bottom(stk, h) == <<h>> \o stk

\* stack.append(h)
Push(stk, h) == Append(stk, h)

WhileCond ==
    /\ stack # <<>>
    /\ PopCond(heap[stack[Len(stack)]].level, heap[headings[hi]].level)

\* Mutant: the synthetic root is created at level 1.
BuildStart_RootLevelOne ==
    /\ pc = "parsed"
    /\ heap' = Append(heap, NewNode(RootTitle, 1, None))
    /\ root' = Len(heap) + 1
    /\ stack' = <<>>
    /\ hi' = 1
    /\ pops' = 0
    /\ pc' = "loop"
    /\ UNCHANGED <<srcLines, md_text, lines, li, page, in_code_block, headings,
                   emitted, trees>>

\* The call build_tree_markdown_levels(headings) up to the for loop.
BuildStart ==
    /\ pc = "parsed"
    /\ heap' = Append(heap, NewNode(RootTitle, 0, None))
    /\ root' = Len(heap) + 1
    /\ stack' = <<>>
    /\ hi' = 1
    /\ pops' = 0
    /\ pc' = "loop"
    /\ UNCHANGED <<srcLines, md_text, lines, li, page, in_code_block, headings,
                   emitted, trees>>

\* Mutant: the loop body looks at the top of the stack without removing it.
BuildPop_KeepTop ==
    /\ pc = "loop"
    /\ hi <= Len(headings)
    /\ WhileCond
    /\ pops' = pops + 1
    /\ UNCHANGED <<srcLines, md_text, pc, lines, li, page, in_code_block, headings,
                   emitted, heap, root, stack, hi, trees>>

\* One iteration of the while loop: stack.pop().
BuildPop ==
    /\ pc = "loop"
    /\ hi <= Len(headings)
    /\ WhileCond
    /\ stack' = SubSeq(stack, 1, Len(stack) - 1)
    /\ pops' = pops + 1
    /\ UNCHANGED <<srcLines, md_text, pc, lines, li, page, in_code_block, headings,
                   emitted, heap, root, hi, trees>>

\* The rest of the for loop's body once the while loop has ended.
BuildAttach ==
    /\ pc = "loop"
    /\ hi <= Len(headings)
    /\ ~WhileCond
    /\ LET h == headings[hi]
           parent == IF stack # <<>> THEN stack[Len(stack)] ELSE root
       IN  /\ heap' = [heap EXCEPT ![parent].children = AttachChild(@, h)]
           /\ stack' = Push(stack, h)
    /\ hi' = hi + 1
    /\ UNCHANGED <<srcLines, md_text, pc, lines, li, page, in_code_block, headings,
                   emitted, root, pops, trees>>

\* The for loop is exhausted: return root.to_dict().
BuildReturn ==
    /\ pc = "loop"
    /\ hi > Len(headings)
    /\ trees' = Append(trees, ToDict(heap, root))
    /\ pc' = "done"
    /\ UNCHANGED <<srcLines, md_text, lines, li, page, in_code_block, headings,
                   emitted, heap, root, stack, hi, pops>>

\* The program is run again on the same input file.
RunAgain ==
    /\ pc = "done"
    /\ Len(trees) < MaxRuns
    /\ pc' = "main"
    /\ UNCHANGED <<srcLines, md_text, lines, li, page, in_code_block, headings,
                   emitted, heap, root, stack, hi, pops, trees>>

\* The caller passes the list of records it already built a tree from to
\* build_tree_markdown_levels once more.
BuildAgain ==
    /\ pc = "done"
    /\ Len(trees) < MaxBuilds
    /\ pc' = "parsed"
    /\ UNCHANGED <<srcLines, md_text, lines, li, page, in_code_block, headings,
                   emitted, heap, root, stack, hi, pops, trees>>

----------------------------------------------------------------------------
(* Inputs *)

H == "#"
SP == " "
PageMarker(body) == PagePrefix \o body \o PageSuffix

\* The lines input texts are assembled from.
InputLines ==
    { <<>>,                                   \* empty line
      <<H, SP, "A">>,                         \* heading, level 1
      <<H, H, SP, "B", SP>>,                  \* heading, level 2, trailing space
      <<H, H, H, H, H, H, SP, SP, "C">>,      \* heading, level 6
      <<H, "A">>,                             \* no whitespace after the marker
      <<SP, H, SP, "A">>,                     \* marker not at the line start
      <<H, H, H, H, H, H, H, SP, "A">>,       \* seven marker characters
      <<H, SP>>,                              \* marker and one space
      <<H, H, SP, "\t">>,                     \* marker and two whitespace characters
      <<Backtick, Backtick, Backtick>>,       \* backtick fence
      <<SP, Tilde, Tilde, Tilde, Tilde, "p", "y">>,  \* indented tilde fence with info
      PageMarker(<<"3">>),
      PageMarker(<<SP, "7", SP>>) \o <<SP>>,    \* whitespace in and after the marker
      PageMarker(<<"a", "b", "c">>),          \* marker without an integer
      <<"A">> }                               \* plain text

\* The lines of texts with headings, fences and page markers only.
PageLines ==
    { <<H, SP, "A">>,
      <<H, H, SP, "B", SP>>,
      <<Backtick, Backtick, Backtick>>,
      PageMarker(<<"3">>),
      PageMarker(<<SP, "7", SP>>) \o <<SP>>,
      PageMarker(<<"1", "2">>),
      PageMarker(<<"a", "b", "c">>) }

\* "\n".join(ls)
RECURSIVE Join(_)
Join(ls) ==
    IF ls = <<>> THEN <<>>
    ELSE IF Len(ls) = 1 THEN ls[1]
    ELSE ls[1] \o <<"\n">> \o Join(Tail(ls))

SeqsUpTo(S, n) == UNION { [1..k -> S] : k \in 0..n }

TitleAt(i) == << <<"A">>, <<"B">>, <<"C">>, <<"D">>, <<"E">>, <<"F">>, <<"G">>, <<"H">> >>[i]

----------------------------------------------------------------------------
(* Specifications *)

InitLocals ==
    /\ emitted = <<>>
    /\ lines = <<>>
    /\ li = 1
    /\ page = None
    /\ in_code_block = FALSE
    /\ root = 0
    /\ stack = <<>>
    /\ hi = 1
    /\ pops = 0
    /\ trees = <<>>

\* main() has read the input file into md_text.
Init ==
    /\ srcLines \in SeqsUpTo(InputLines, MaxLines)
    /\ md_text = Join(srcLines)
    /\ pc = "main"
    /\ headings = <<>>
    /\ heap = <<>>
    /\ InitLocals

Next ==
    \/ ParseStart
    \/ ScanLine
    \/ ParseReturn
    \/ BuildStart
    \/ BuildPop
    \/ BuildAttach
    \/ BuildReturn

Spec == Init /\ [][Next]_vars

\* The pipeline run several times on the same text.
InitRuns ==
    /\ srcLines \in SeqsUpTo(PageLines, MaxRunLines)
    /\ md_text = Join(srcLines)
    /\ pc = "main"
    /\ headings = <<>>
    /\ heap = <<>>
    /\ InitLocals

NextRuns == Next \/ RunAgain

SpecRuns == InitRuns /\ [][NextRuns]_vars

\* The pipeline, and then the build repeated on the records of the extraction.
NextRebuild == Next \/ BuildAgain

SpecRebuild == InitRuns /\ [][NextRebuild]_vars

\* The pipeline on texts of headings, fences and page markers.
InitPages ==
    /\ srcLines \in SeqsUpTo(PageLines, MaxPageLines)
    /\ md_text = Join(srcLines)
    /\ pc = "main"
    /\ headings = <<>>
    /\ heap = <<>>
    /\ InitLocals

SpecPages == InitPages /\ [][Next]_vars

\* build_tree_markdown_levels called on an arbitrary list of heading records.
InitBuild ==
    /\ srcLines = <<>>
    /\ md_text = <<>>
    /\ pc = "parsed"
    /\ \E lv \in SeqsUpTo(1..HeaderMaxMarkers, MaxHeadings) :
         /\ heap = [i \in 1..Len(lv) |-> NewNode(TitleAt(i), lv[i], None)]
         /\ headings = [i \in 1..Len(lv) |-> i]
    /\ InitLocals

NextBuild ==
    \/ BuildStart
    \/ BuildPop
    \/ BuildAttach
    \/ BuildReturn

SpecBuild == InitBuild /\ [][NextBuild]_vars

----------------------------------------------------------------------------
(* The tree builder: what the claims speak of *)

NumHeadings == Len(headings)

\* Level of the heading at position i of the flat sequence.
Lv(i) == heap[headings[i]].level

\* The children list of the heading at position p; position 0 is the root.
ChildrenAt(p) == IF p = 0 THEN heap[root].children ELSE heap[headings[p]].children

Range(f) == { f[x] : x \in DOMAIN f }

SetMax(S) == CHOOSE x \in S : \A y \in S : y <= x
SetMin(S) == CHOOSE x \in S : \A y \in S : x <= y

\* Position of the nearest heading before i with a strictly smaller level,
\* 0 (the root) when there is none.
NearestSmaller(i) ==
    LET S == { j \in 1..(i - 1) : Lv(j) < Lv(i) }
    IN  IF S = {} THEN 0 ELSE SetMax(S)

\* Number of occurrences of x in the sequence f.
Occurrences(f, x) == Cardinality({ k \in DOMAIN f : f[k] = x })

\* The positions (0 for the root) whose children list holds heading i.
ParentsOf(i) == { p \in 0..NumHeadings : headings[i] \in Range(ChildrenAt(p)) }

LevelsAre(lv) ==
    /\ NumHeadings = Len(lv)
    /\ \A i \in 1..Len(lv) : Lv(i) = lv[i]

TitlesOf(ds) == [k \in 1..Len(ds) |-> ds[k].title]

LastTree == trees[Len(trees)]

NestingRule ==
    \A i \in 1..NumHeadings :
        /\ ParentsOf(i) = {NearestSmaller(i)}
        /\ Occurrences(ChildrenAt(NearestSmaller(i)), headings[i]) = 1

\* C1 as stated: every heading is a child of the nearest preceding heading of
\* strictly smaller level, or of the root when there is none, and levels
\* [1,2,3,2,1] titled A..E give root.children = [A,E], A.children = [B],
\* B.children = [C,D].
C1_Original ==
    pc = "done" =>
        /\ NestingRule
        /\ LevelsAre(<<1, 2, 3, 2, 1>>) =>
              /\ TitlesOf(LastTree.children) = <<TitleAt(1), TitleAt(5)>>
              /\ TitlesOf(LastTree.children[1].children) = <<TitleAt(2)>>
              /\ TitlesOf(LastTree.children[1].children[1].children)
                    = <<TitleAt(3), TitleAt(4)>>

\* C1 (amended): in the tree build_tree_markdown_levels returns, every heading
\* is a child, exactly once, of the nearest preceding heading of strictly
\* smaller level, or of the root when there is none; levels [1,3] nest the
\* second heading under the first, and levels [1,2,3,2,1] titled A..E give
\* root.children = [A,E], A.children = [B,D], B.children = [C].
C1_Nesting ==
    pc = "done" =>
        /\ NestingRule
        /\ LevelsAre(<<1, 3>>) =>
              /\ TitlesOf(LastTree.children) = <<TitleAt(1)>>
              /\ TitlesOf(LastTree.children[1].children) = <<TitleAt(2)>>
        /\ LevelsAre(<<1, 2, 3, 2, 1>>) =>
              /\ TitlesOf(LastTree.children) = <<TitleAt(1), TitleAt(5)>>
              /\ TitlesOf(LastTree.children[1].children) = <<TitleAt(2), TitleAt(4)>>
              /\ TitlesOf(LastTree.children[1].children[1].children) = <<TitleAt(3)>>
              /\ LastTree.children[1].children[2].children = <<>>
              /\ LastTree.children[2].children = <<>>

\* The build has returned the tree of levels [1,2,3,2,1].
C1_Witness == pc = "done" /\ LevelsAre(<<1, 2, 3, 2, 1>>) /\ Len(trees) = 1

\* The heading records of a returned tree in pre-order, the root included.
RECURSIVE Preorder(_)
RECURSIVE PreorderAll(_)
Preorder(d) ==
    <<[title |-> d.title, level |-> d.level, page |-> d.page]>> \o PreorderAll(d.children)
PreorderAll(ds) ==
    IF ds = <<>> THEN <<>> ELSE Preorder(ds[1]) \o PreorderAll(Tail(ds))

\* The input of the build as records, in order.
InputRecords ==
    [i \in 1..NumHeadings |->
        [title |-> heap[headings[i]].title,
         level |-> heap[headings[i]].level,
         page |-> heap[headings[i]].page]]

\* C2: the pre-order traversal of the returned tree without its root is
\* exactly the input sequence of headings: nothing added, dropped, merged
\* or reordered.
C2_PreorderIsInput ==
    pc = "done" => Tail(Preorder(LastTree)) = InputRecords

\* A returned tree with a level jump and a return to a shallower level.
C2_Witness ==
    /\ pc = "done"
    /\ NumHeadings >= 3
    /\ \E i \in 1..(NumHeadings - 1) : Lv(i + 1) > Lv(i) + 1
    /\ \E i \in 1..(NumHeadings - 1) : Lv(i + 1) < Lv(i)
    /\ Tail(Preorder(LastTree)) = InputRecords

\* C3: at every moment of the build every node attached so far has a level
\* strictly greater than the level of the node it is a child of (the root
\* has level 0).
C3_ChildDeeper ==
    \A a \in 1..Len(heap) :
        \A k \in 1..Len(heap[a].children) :
            heap[heap[a].children[k]].level > heap[a].level

\* In the middle of a build, a heading with a child and headings still to come.
C3_Witness ==
    /\ pc = "loop"
    /\ hi <= NumHeadings
    /\ \E i \in 1..NumHeadings : ChildrenAt(i) # <<>>
    /\ heap[root].children # <<>>

\* Addresses of the nodes below the node at address a.
RECURSIVE Below(_, _)
Below(hp, a) ==
    UNION { {hp[a].children[k]} \cup Below(hp, hp[a].children[k]) :
              k \in 1..Len(hp[a].children) }

\* First position after i whose level is at most that of i, or one past the end.
RunEnd(i) ==
    SetMin({ j \in (i + 1)..NumHeadings : Lv(j) <= Lv(i) } \cup {NumHeadings + 1})

\* The positions of the run after i that are nested immediately under i:
\* no heading between i and k is shallower than k.
DirectInRun(i) ==
    { k \in (i + 1)..(RunEnd(i) - 1) : \A j \in (i + 1)..(k - 1) : Lv(j) >= Lv(k) }

IsIncreasing(f) == \A x, y \in DOMAIN f : x < y => f[x] < f[y]

\* Positions of the addresses in a list of nodes.
PositionsOf(list) ==
    [k \in 1..Len(list) |-> CHOOSE i \in 1..NumHeadings : headings[i] = list[k]]

\* C4: the subtree below the heading at position i holds exactly the headings
\* at positions i+1 .. j-1, j the first later position of level at most that
\* of i; the children of i are the members of that run nested immediately
\* under i, in order of appearance.
C4_SubtreeIsRun ==
    pc = "done" =>
        \A i \in 1..NumHeadings :
            /\ Below(heap, headings[i]) = { headings[k] : k \in (i + 1)..(RunEnd(i) - 1) }
            /\ Range(PositionsOf(ChildrenAt(i))) = DirectInRun(i)
            /\ IsIncreasing(PositionsOf(ChildrenAt(i)))

\* A returned tree where some heading has two children, one of them with a
\* child of its own, and a later heading closes the run.
C4_Witness ==
    /\ pc = "done"
    /\ \E i \in 1..NumHeadings :
          /\ Len(ChildrenAt(i)) >= 2
          /\ RunEnd(i) <= NumHeadings
          /\ Cardinality(Below(heap, headings[i])) > Len(ChildrenAt(i))

----------------------------------------------------------------------------
(* The extractor: what the claims speak of *)

\* The line at position i of the input.
SrcLine(i) == srcLines[i]

\* Fence delimiter: after its leading whitespace the line starts with three
\* backticks or three tildes.
RefFenceLine(line) ==
    LET a == SkipSpace(line, 1)
    IN  /\ a + 2 <= Len(line)
        /\ \/ \A x \in a..(a + 2) : line[x] = Backtick
           \/ \A x \in a..(a + 2) : line[x] = Tilde

\* Line i lies inside a fence block: it is no delimiter and an odd number of
\* delimiter lines precede it.
RefInFence(i) ==
    /\ ~RefFenceLine(SrcLine(i))
    /\ Cardinality({ j \in 1..(i - 1) : RefFenceLine(SrcLine(j)) }) % 2 = 1

\* Heading pattern: 1 to 6 marker characters at the very start of the line,
\* then a whitespace character, then at least one more character.
RefHeadingPattern(line) ==
    LET n == RunOf(line, 1, H)
    IN  /\ n >= 1
        /\ n <= HeaderMaxMarkers
        /\ Len(line) >= n + 2
        /\ IsSpace(line[n + 1])

\* Page marker: the stripped line is <!--PAGE: then an integer with optional
\* whitespace around it, then -->.
RefMarkerShaped(line) ==
    LET s == Strip(line)
    IN  /\ Len(s) >= Len(PagePrefix) + Len(PageSuffix)
        /\ SubSeq(s, 1, Len(PagePrefix)) = PagePrefix
        /\ SubSeq(s, Len(s) - Len(PageSuffix) + 1, Len(s)) = PageSuffix

RefMarkerBody(line) ==
    LET s == Strip(line)
    IN  Strip(SubSeq(s, Len(PagePrefix) + 1, Len(s) - Len(PageSuffix)))

RefPageMarker(line) ==
    /\ RefMarkerShaped(line)
    /\ RefMarkerBody(line) # <<>>
    /\ \A x \in 1..Len(RefMarkerBody(line)) : IsDigit(RefMarkerBody(line)[x])

RECURSIVE RefNumber(_, _)
RefNumber(ds, acc) ==
    IF ds = <<>> THEN acc ELSE RefNumber(Tail(ds), 10 * acc + DigitVal(Head(ds)))

\* The page in effect when line i is scanned: the integer of the last page
\* marker before i that the scan has seen (one outside fence blocks), or None.
RefPageBefore(i) ==
    LET S == { j \in 1..(i - 1) : RefPageMarker(SrcLine(j)) /\ ~RefInFence(j) }
    IN  IF S = {} THEN None ELSE Some(RefNumber(RefMarkerBody(SrcLine(SetMax(S))), 0))

Scanned == 1..Len(emitted)

RefHeadingLines ==
    { i \in 1..Len(srcLines) : RefHeadingPattern(SrcLine(i)) /\ ~RefInFence(i) }

C6_FenceSuppresses ==
    \A i \in Scanned :
        (RefInFence(i) /\ RefHeadingPattern(SrcLine(i))) => emitted[i] = 0

\* Fence open, heading line, fence close have all been scanned.
C6_Witness ==
    \E i \in Scanned :
        /\ i >= 2
        /\ i + 1 \in Scanned
        /\ RefFenceLine(SrcLine(i - 1))
        /\ RefInFence(i)
        /\ RefHeadingPattern(SrcLine(i))
        /\ RefFenceLine(SrcLine(i + 1))

\* C7: every heading record carries the integer of the most recent page
\* marker the scan had seen when it reached the heading line (the last one
\* wins, whatever its value), and None when it had seen none.
C7_PageOfHeading ==
    \A i \in Scanned : emitted[i] # 0 => heap[emitted[i]].page = RefPageBefore(i)

\* Marker 3, heading A, marker 7, heading B: A has page 3 and B has page 7.
C7_Witness ==
    /\ pc = "parsed"
    /\ srcLines = << PageMarker(<<"3">>), <<H, SP, "A">>,
                     PageMarker(<<SP, "7", SP>>) \o <<SP>>, <<H, H, SP, "B", SP>> >>
    /\ heap[emitted[2]].page = Some(3)
    /\ heap[emitted[4]].page = Some(7)

\* A line of 1 to 6 marker characters followed by whitespace only.
RefMarkerOnly(line) ==
    LET n == RunOf(line, 1, H)
    IN  /\ n >= 1
        /\ n <= HeaderMaxMarkers
        /\ Len(line) >= n + 1
        /\ \A x \in (n + 1)..Len(line) : IsSpace(line[x])

\* C8 as stated: outside a fence, a line of 1 to 6 marker characters followed
\* only by one or more whitespace characters is recorded as a heading of that
\* level with an empty title.
C8_EmptyTitleRecorded ==
    \A i \in Scanned :
        (RefMarkerOnly(SrcLine(i)) /\ ~RefInFence(i)) =>
            /\ emitted[i] # 0
            /\ heap[emitted[i]].title = <<>>
            /\ heap[emitted[i]].level = RunOf(SrcLine(i), 1, H)

\* C9: scanning a page-marker line adds no heading record, and scanning a
\* page-marker line without a parsable integer leaves the current page as it
\* was.
C9_MarkerStep ==
    [][ (pc = "scan" /\ li <= Len(lines)) =>
           /\ RefMarkerShaped(lines[li]) => (headings' = headings /\ heap' = heap)
           /\ (RefMarkerShaped(lines[li]) /\ ~RefPageMarker(lines[li])) => page' = page
      ]_vars

\* A marker, then a marker without an integer, then a heading that carries
\* the page of the first marker.
C9_Witness ==
    \E i \in Scanned :
        /\ i + 2 \in Scanned
        /\ RefPageMarker(SrcLine(i))
        /\ RefMarkerShaped(SrcLine(i + 1)) /\ ~RefPageMarker(SrcLine(i + 1))
        /\ emitted[i + 1] = 0
        /\ emitted[i + 2] # 0
        /\ heap[emitted[i + 2]].page = Some(RefNumber(RefMarkerBody(SrcLine(i)), 0))
        /\ page = heap[emitted[i + 2]].page

\* C10: every run of the pipeline on the same text returns a tree deeply
\* equal to the tree of the first run.
C10_RunsAgree ==
    \A k \in 1..Len(trees) : trees[k] = trees[1]

\* Two runs have returned a tree with a nested heading that carries a page.
C10_Witness ==
    /\ Len(trees) >= 2
    /\ \E a \in 1..Len(trees[2].children) :
          /\ trees[2].children[a].children # <<>>
          /\ trees[2].children[a].children[1].page # None

\* The line cannot be a heading: it does not start with a marker character,
\* or has more than six of them, or a character other than whitespace
\* directly follows the markers.
RefNotHeadingShape(line) ==
    LET n == RunOf(line, 1, H)
    IN  \/ n = 0
        \/ n > HeaderMaxMarkers
        \/ Len(line) > n /\ ~IsSpace(line[n + 1])

\* C11: every heading record has a level in 1..6 equal to the number of
\* marker characters at the very start of its line; a line with more than
\* six leading markers, with no whitespace after the markers, or with the
\* markers not at the very start of the line produces no record.
C11_LevelIsMarkerCount ==
    \A i \in Scanned :
        /\ emitted[i] # 0 =>
              /\ heap[emitted[i]].level \in 1..HeaderMaxMarkers
              /\ heap[emitted[i]].level = RunOf(SrcLine(i), 1, H)
        /\ RefNotHeadingShape(SrcLine(i)) => emitted[i] = 0

\* A heading of level 6 was recorded, and a line of seven markers and a line
\* whose markers follow a space were scanned.
C11_Witness ==
    /\ \E i \in Scanned : emitted[i] # 0 /\ heap[emitted[i]].level = HeaderMaxMarkers
    /\ \E i \in Scanned : RunOf(SrcLine(i), 1, H) > HeaderMaxMarkers
    /\ \E i \in Scanned :
          RunOf(SrcLine(i), 1, H) = 0 /\ RunOf(Strip(SrcLine(i)), 1, H) >= 1

EmptyRoot == [title |-> RootTitle, level |-> 0, page |-> None, children |-> <<>>]

\* C12: when no line of the text is recorded as a heading (the empty text
\* included) the pipeline returns the root alone: title ROOT, level 0, no
\* page, no children.
C12_EmptyTree ==
    (pc = "done" /\ headings = <<>>) => LastTree = EmptyRoot

\* The pipeline has returned for a text whose only heading line is fenced.
C12_Witness ==
    /\ pc = "done"
    /\ headings = <<>>
    /\ \E i \in 1..Len(srcLines) : RefHeadingPattern(SrcLine(i))
    /\ LastTree = EmptyRoot

----------------------------------------------------------------------------
(* The ancestor stack: what the claims speak of *)

StackLevels == [k \in 1..Len(stack) |-> heap[stack[k]].level]

\* The build is between two inputs: no heading is processed yet, or the last
\* one has been popped-to, attached and pushed.
BetweenInputs ==
    /\ pc \in {"loop", "done"}
    /\ \/ hi = 1 /\ stack = <<>>
       \/ hi > 1 /\ stack # <<>> /\ stack[Len(stack)] = headings[hi - 1]

\* C13 as stated: between inputs the levels of the stack, read from the
\* bottom to the top, are monotonically decreasing.
C13_Original ==
    BetweenInputs =>
        \A k \in 1..(Len(stack) - 1) : StackLevels[k] >= StackLevels[k + 1]

\* C13 (amended): between inputs the levels of the stack are strictly
\* increasing when read from the bottom to the top, that is, decreasing when
\* read from the top down to the bottom.
C13_StackIncreasing ==
    BetweenInputs =>
        \A k \in 1..(Len(stack) - 1) : StackLevels[k] < StackLevels[k + 1]

\* Between two inputs, after a pop, with three open ancestors.
C13_Witness ==
    /\ BetweenInputs
    /\ pc = "loop"
    /\ hi <= NumHeadings
    /\ pops >= 1
    /\ Len(stack) >= 3

PcRank == IF pc = "parsed" THEN 2 ELSE IF pc = "loop" THEN 1 ELSE 0

\* Steps the build can still take: two per heading to come, one per heading
\* on the stack, and the steps that start and end the call.
Measure == 2 * (NumHeadings - hi + 1) + Len(stack) + PcRank

\* C17: the build terminates after processing each heading once: it is never
\* stuck before it returns and every step lowers a measure that is never
\* negative; each heading is pushed once and popped at most once, so the
\* headings pushed so far are those on the stack plus those popped, and the
\* pops never outnumber the headings.
C17_Terminates ==
    /\ [](/\ Measure >= 0
          /\ pc # "done" => ENABLED NextBuild
          /\ pc \in {"loop", "done"} =>
                /\ hi <= NumHeadings + 1
                /\ pops + Len(stack) = hi - 1
                /\ pops <= NumHeadings
                /\ IsIncreasing(PositionsOf(stack))
                /\ \A k \in 1..Len(stack) : PositionsOf(stack)[k] < hi
          /\ pc = "done" => hi = NumHeadings + 1)
    /\ [][Measure' < Measure]_vars

\* The build has returned after popping as often as it could: every heading
\* but the last was popped.
C17_Witness ==
    /\ pc = "done"
    /\ NumHeadings >= 3
    /\ pops = NumHeadings - 1

\* The stack stk is the path from a child of the root rt down to h.
StackIsPath(stk, hp, rt, h) ==
    /\ stk # <<>>
    /\ stk[Len(stk)] = h
    /\ stk[1] \in Range(hp[rt].children)
    /\ \A k \in 1..(Len(stk) - 1) : stk[k + 1] \in Range(hp[stk[k]].children)

\* C19: once a heading has been processed the stack, read from the bottom to
\* the top, is the path in the tree built so far from a child of the root
\* down to that heading: each element is a child of the one below it, the
\* bottom one a child of the root, the top one the heading itself.
C19_StackIsPath ==
    [][ (pc = "loop" /\ hi' = hi + 1) =>
            StackIsPath(stack', heap', root', headings[hi]) ]_vars

\* A heading was attached after a pop and three ancestors are open.
C19_Witness ==
    /\ pc = "loop"
    /\ hi > 1
    /\ pops >= 1
    /\ Len(stack) >= 3
    /\ StackIsPath(stack, heap, root, headings[hi - 1])

----------------------------------------------------------------------------
(* Repeated builds *)

\* C14 as stated: a build of a list of records that was built before returns
\* a tree deeply equal to the tree of the first build.
C14_RebuildAgrees ==
    pc = "done" => LastTree = trees[1]

----------------------------------------------------------------------------
(* Fences and the frame of the build *)

FenceLinesScanned == { j \in Scanned : RefFenceLine(SrcLine(j)) }

\* C15: every fence-delimiter line flips in_code_block, whichever kind it is
\* and whichever kind came before, so the flag is true exactly after an odd
\* number of delimiter lines; the delimiter line itself adds no heading and
\* leaves the current page alone.
C15_FenceToggles ==
    /\ [](pc \in {"scan", "parsed"} =>
             in_code_block = (Cardinality(FenceLinesScanned) % 2 = 1))
    /\ [][ (pc = "scan" /\ li <= Len(lines) /\ RefFenceLine(lines[li])) =>
              (/\ in_code_block' = ~in_code_block
               /\ page' = page
               /\ headings' = headings
               /\ heap' = heap) ]_vars

\* A backtick fence closed by a tilde fence, and the heading after it recorded.
C15_Witness ==
    \E i \in Scanned :
        /\ i + 2 \in Scanned
        /\ RunOf(SrcLine(i), SkipSpace(SrcLine(i), 1), Backtick) >= 3
        /\ RunOf(SrcLine(i + 1), SkipSpace(SrcLine(i + 1), 1), Tilde) >= 3
        /\ Cardinality({ j \in 1..(i - 1) : RefFenceLine(SrcLine(j)) }) = 0
        /\ emitted[i + 2] # 0
        /\ ~in_code_block

\* C16: while in_code_block is true, scanning a line that is no fence
\* delimiter changes neither the headings, nor the current page, nor the flag.
C16_FenceFrame ==
    [][ (pc = "scan" /\ li <= Len(lines) /\ in_code_block
            /\ ~RefFenceLine(lines[li])) =>
           (/\ headings' = headings
            /\ heap' = heap
            /\ page' = page
            /\ in_code_block' = in_code_block) ]_vars

\* A page marker between two fence lines, and the heading after the fence
\* recorded without a page.
C16_Witness ==
    \E i \in Scanned :
        /\ i + 3 \in Scanned
        /\ RefFenceLine(SrcLine(i))
        /\ RefPageMarker(SrcLine(i + 1)) /\ RefInFence(i + 1)
        /\ RefFenceLine(SrcLine(i + 2))
        /\ emitted[i + 3] # 0
        /\ heap[emitted[i + 3]].page = None

IsPrefix(f, g) == Len(f) <= Len(g) /\ SubSeq(g, 1, Len(f)) = f

\* C18: the records the extractor returns have no children, and the build
\* leaves the title, level and page of every record as they are and changes
\* children lists only by appending to them.
C18_RecordsFrame ==
    /\ [](pc = "parsed" => \A i \in 1..NumHeadings : heap[headings[i]].children = <<>>)
    /\ [][ (pc = "parsed" \/ pc = "loop") =>
              (\A a \in 1..Len(heap) :
                  /\ heap'[a].title = heap[a].title
                  /\ heap'[a].level = heap[a].level
                  /\ heap'[a].page = heap[a].page
                  /\ IsPrefix(heap[a].children, heap'[a].children)) ]_vars

\* The build has returned; a record with a page has two children.
C18_Witness ==
    /\ pc = "done"
    /\ \E i \in 1..NumHeadings :
          /\ Len(ChildrenAt(i)) >= 2
          /\ heap[headings[i]].page # None

====
